---- MODULE Spec2Model ----
(***************************************************************************)
(* A model of tagger.py: the matching of ledger transactions to orders and *)
(* refunds (tag_transactions, tag_as_order, tag_as_refund), the validation *)
(* of the result (sanity_check_and_filter_tags) and the tail of main.      *)
(*                                                                         *)
(* Money.  The program keeps money as micro-usd.  Python 3's "/" in        *)
(* adjust_amazon_item_quantity yields fractions of a micro-usd; the model  *)
(* keeps them exactly: every amount is an integer number of 1/U micro-usd, *)
(* where U is the least common multiple of the quantities an item can      *)
(* have.  A float that such a division has rounded differs from the exact  *)
(* value by less than 1e-9 micro-usd: that cannot change a comparison      *)
(* against a tolerance here, but it decides an == between two amounts that *)
(* are exactly equal.  An item whose amounts carry such an error is marked *)
(* approx, and the outcome of == on an amount made from it is either one   *)
(* (the variable float_eq: what this build gives for this input).          *)
(*                                                                         *)
(* Dates are day numbers 1..MaxDay; NoDate is parse_amazon_date's None.    *)
(* Text is a sequence of tokens, so that prefixing and startswith are the  *)
(* sequence operations; titles are short enough not to be truncated.       *)
(***************************************************************************)
EXTENDS Integers, Sequences, FiniteSets, TLC

\* ------------------------------------------------------------------ bounds
MaxQty == 3
MaxDay == 5
LoopFuel == 12

\* --------------------------------------------------------------- constants
MICRO_USD_EPS == 50
CENT_MICRO_USD == 10000
MatchWindowDays == 4
LargeNumDays == 365
NoDate == 0

RECURSIVE Gcd(_, _)
Gcd(a, b) == IF b = 0 THEN a ELSE Gcd(b, a % b)

RECURSIVE LcmUpTo(_)
LcmUpTo(n) ==
    IF n <= 1 THEN 1
    ELSE LET l == LcmUpTo(n - 1) IN (l * n) \div Gcd(l, n)

\* Units per micro-usd.
U == LcmUpTo(MaxQty)
EPS == MICRO_USD_EPS * U
CENT == CENT_MICRO_USD * U
Cents(c) == c * CENT

Abs(x) == IF x < 0 THEN -x ELSE x

RECURSIVE SumSeq(_)
SumSeq(s) == IF s = <<>> THEN 0 ELSE Head(s) + SumSeq(Tail(s))

Map(Op(_), s) == [k \in 1..Len(s) |-> Op(s[k])]

\* The indices k of s, in order, at which Test(s[k]) holds.
RECURSIVE IndicesFrom(_, _, _)
IndicesFrom(Test(_), s, k) ==
    IF k > Len(s) THEN <<>>
    ELSE (IF Test(s[k]) THEN <<k>> ELSE <<>>) \o IndicesFrom(Test, s, k + 1)
Indices(Test(_), s) == IndicesFrom(Test, s, 1)

Reverse(s) == [k \in 1..Len(s) |-> s[Len(s) + 1 - k]]

\* round(a / b) for b > 0, a tie going to the even neighbour (Python's round).
RoundDivPos(a, b) ==
    LET q == a \div b
        r == a % b
    IN IF 2 * r > b THEN q + 1
       ELSE IF 2 * r = b THEN q + (q % 2)
       ELSE q
RoundDiv(a, b) == IF a >= 0 THEN RoundDivPos(a, b) ELSE -RoundDivPos(-a, b)

\* sum_amounts
sum_amounts(trans) == SumSeq(Map(LAMBDA t : t.amount, trans))

\* micro_usd_to_usd_string: the sign and the cents that get printed.
micro_usd_to_usd_string(micro_usd) ==
    [neg |-> ~(micro_usd > 0),
     cents |-> RoundDivPos(Abs(micro_usd) + 100 * U, CENT)]

\* --------------------------------------------------------------- categories
\* category.AMAZON_TO_MINT_CATEGORY.get(c, default)
DEFAULT_MINT_CATEGORY == "Shopping"
DEFAULT_MINT_RETURN_CATEGORY == "Returned Purchase"
AmazonToMint(c, default) ==
    IF c = "Book" THEN "Books"
    ELSE IF c = "Grocery" THEN "Groceries"
    ELSE default

\* get_item_title, for titles that fit the target length.
get_item_title(item) ==
    (IF item.qty > 1 THEN <<ToString(item.qty) \o "x">> ELSE <<>>) \o <<item.title>>

\* ------------------------------------------------ adjust_amazon_item_quantity
\* ok is FALSE when one of the three assertions fails.
\* adjust_amazon_item_quantity that leaves Item Subtotal Tax as it was.
AdjustKeepsTax(item, new_quantity) ==
    LET original_quantity == item.qty
        subtotal == item.unit * new_quantity
    IN IF ~(new_quantity > 0) \/ ~(new_quantity <= original_quantity)
          \/ item.unit * original_quantity # item.subtotal
       THEN [ok |-> FALSE, item |-> item]
       ELSE [ok |-> TRUE,
             item |-> [item EXCEPT !.subtotal = subtotal,
                                   !.total = subtotal + item.tax,
                                   !.qty = new_quantity,
                                   !.origQty = original_quantity]]

adjust_amazon_item_quantity(item, new_quantity) ==
    LET original_quantity == item.qty
        subtotal == item.unit * new_quantity
        tax == (item.tax * new_quantity) \div original_quantity
    IN IF ~(new_quantity > 0) \/ ~(new_quantity <= original_quantity)
          \/ item.unit * original_quantity # item.subtotal
       THEN [ok |-> FALSE, item |-> item]
       ELSE [ok |-> TRUE,
             item |-> [item EXCEPT !.subtotal = subtotal,
                                   !.tax = tax,
                                   !.total = subtotal + tax,
                                   !.qty = new_quantity,
                                   !.origQty = original_quantity,
                                   !.approx = @ \/ item.tax % (U * original_quantity) # 0]]

\* The difference to the order's total, when below a cent, goes to the tax.
AbsorbDiff(order, item) ==
    LET diff == order.total - item.total
    IN IF diff # 0 /\ Abs(diff) < CENT
       THEN [item EXCEPT !.total = @ + diff, !.tax = @ + diff]
       ELSE item

\* ------------------------------------------------------------- tag_as_order
\* A synthesized line: a deep copy of t with these fields set.
Line(t, merchant, cat, amount, isDebit) ==
    [t EXCEPT !.merchant = merchant, !.category = cat,
              !.amount = amount, !.isDebit = isDebit]

\* ClosestOrder without the test of MATCHED_TRANSACTION.
RECURSIVE ClosestOrderAnyClaim(_, _, _, _, _, _)
ClosestOrderAnyClaim(t, os, cands, k, closest_match, closest_match_num_days) ==
    IF k > Len(cands) THEN closest_match
    ELSE LET o == os[cands[k]]
             num_days == t.odate - o.shipDate
         IN IF Abs(num_days) < MatchWindowDays
               /\ Abs(num_days) < closest_match_num_days
            THEN ClosestOrderAnyClaim(t, os, cands, k + 1, cands[k], Abs(num_days))
            ELSE ClosestOrderAnyClaim(t, os, cands, k + 1, closest_match,
                                      closest_match_num_days)

\* ClosestOrder with <= for < in the comparison with the closest so far.
RECURSIVE ClosestOrderLastTie(_, _, _, _, _, _)
ClosestOrderLastTie(t, os, cands, k, closest_match, closest_match_num_days) ==
    IF k > Len(cands) THEN closest_match
    ELSE LET o == os[cands[k]]
             num_days == t.odate - o.shipDate
         IN IF Abs(num_days) < MatchWindowDays
               /\ Abs(num_days) <= closest_match_num_days
               /\ o.matched = 0
            THEN ClosestOrderLastTie(t, os, cands, k + 1, cands[k], Abs(num_days))
            ELSE ClosestOrderLastTie(t, os, cands, k + 1, closest_match,
                                     closest_match_num_days)

\* The loop over matched_orders: the index (in os) of the closest unclaimed
\* order within the window, 0 for None.  cands holds indices into os.
RECURSIVE ClosestOrder(_, _, _, _, _, _)
ClosestOrder(t, os, cands, k, closest_match, closest_match_num_days) ==
    IF k > Len(cands) THEN closest_match
    ELSE LET o == os[cands[k]]
             num_days == t.odate - o.shipDate
         IN IF Abs(num_days) < MatchWindowDays
               /\ Abs(num_days) < closest_match_num_days
               /\ o.matched = 0
            THEN ClosestOrder(t, os, cands, k + 1, cands[k], Abs(num_days))
            ELSE ClosestOrder(t, os, cands, k + 1, closest_match,
                              closest_match_num_days)

\* The items of the order.  An entry [src, it] is the item its[src] itself
\* (src > 0: the list holds the input record, not a copy) or a deep copy
\* (src = 0).  kind is "work", "none" (return None) or "raise".
ResolveItems(order, its) ==
    LET tracking == order.tracking
        order_id == order.oid
        inTracking == \E k \in 1..Len(its) : its[k].tracking = tracking
    IN IF tracking = "" \/ ~inTracking
       THEN LET ofOrder == Indices(LAMBDA i : i.oid = order_id, its)
                hits == SelectSeq(ofOrder,
                                  LAMBDA k : its[k].unit = order.subtotal)
            IN IF ofOrder = <<>> THEN [kind |-> "none", work |-> <<>>]
               ELSE IF hits = <<>> THEN [kind |-> "none", work |-> <<>>]
               ELSE LET adj == adjust_amazon_item_quantity(its[hits[1]], 1)
                    IN IF ~adj.ok THEN [kind |-> "raise", work |-> <<>>]
                       ELSE [kind |-> "work",
                             work |-> <<[src |-> 0,
                                         it |-> AbsorbDiff(order, adj.item)]>>]
       ELSE LET ks == Indices(LAMBDA i : i.tracking = tracking
                                          /\ i.oid = order_id, its)
            IN [kind |-> "work",
                work |-> [j \in 1..Len(ks) |-> [src |-> ks[j], it |-> its[ks[j]]]]]

\* sorted(items, key=Item Total, reverse=True): stable.
RECURSIVE InsertDesc(_, _)
InsertDesc(e, s) ==
    IF s = <<>> THEN <<e>>
    ELSE IF Head(s).it.total >= e.it.total
         THEN <<Head(s)>> \o InsertDesc(e, Tail(s))
         ELSE <<e>> \o s
RECURSIVE SortFrom(_, _, _)
SortFrom(s, k, acc) ==
    IF k > Len(s) THEN acc ELSE SortFrom(s, k + 1, InsertDesc(s[k], acc))
SortItems(s) == SortFrom(s, 1, <<>>)

\* 1 / DOLLAR_EPS
DollarEpsInverse == 10000

\* The check of the item sub-totals against the order's, and the quantity
\* fix of a single item.  range(quantity) is 0 .. quantity - 1.
FixQuantity(order, work) ==
    LET items_sum == SumSeq(Map(LAMBDA e : e.it.subtotal, work))
        order_total == order.subtotal
    IN IF ~(Abs(items_sum - order_total) > U \div DollarEpsInverse)
       THEN [kind |-> "work", work |-> work]
       ELSE IF Len(work) = 1
       THEN LET item == work[1].it
                quantity == item.qty
                per_unit == item.unit
                fits == {i \in 0..(quantity - 1) : per_unit * i = order.subtotal}
            IN IF fits = {} THEN [kind |-> "none", work |-> <<>>]
               ELSE LET i == CHOOSE x \in fits : \A y \in fits : x <= y
                        adj == adjust_amazon_item_quantity(item, i)
                    IN IF ~adj.ok THEN [kind |-> "raise", work |-> <<>>]
                       ELSE [kind |-> "work",
                             work |-> <<[src |-> 0,
                                         it |-> AbsorbDiff(order, adj.item)]>>]
       ELSE [kind |-> "none", work |-> <<>>]

\* The item lines, the shipping line and the promotion line.
Synthesize(t, order, work, feq) ==
    LET item_lines == [k \in 1..Len(work) |->
                          Line(t, get_item_title(work[k].it),
                               AmazonToMint(work[k].it.cat, DEFAULT_MINT_CATEGORY),
                               work[k].it.total, TRUE)]
        hasShip == order.shipping # 0
        ship_tax == order.taxCharged - SumSeq(Map(LAMBDA e : e.it.tax, work))
        ship == Line(t, <<"Shipping">>, "Shipping", order.shipping + ship_tax, TRUE)
        hasPromo == order.promos # 0
        promo0 == Line(t, <<"Promotion(s)">>, DEFAULT_MINT_CATEGORY,
                       -order.promos, FALSE)
        tax_diff == order.taxBefore - order.taxCharged
        rounded == \E k \in 1..Len(work) : work[k].it.approx
        promo == IF hasPromo /\ hasShip /\ Abs(promo0.amount) = ship.amount
                    /\ (rounded => feq)
                 THEN [promo0 EXCEPT !.category = "Shipping"]
                 ELSE IF hasPromo /\ tax_diff # 0
                 THEN [promo0 EXCEPT !.amount = @ - tax_diff]
                 ELSE promo0
    IN item_lines \o (IF hasShip THEN <<ship>> ELSE <<>>)
                  \o (IF hasPromo THEN <<promo>> ELSE <<>>)

\* round(Item Subtotal Tax * 100.0 / Item Subtotal, 1), in tenths of a percent.
TaxRate(it) ==
    LET g == Gcd(Abs(it.tax), it.subtotal)
    IN IF g = 0 THEN 0 ELSE RoundDiv((it.tax \div g) * 1000, it.subtotal \div g)

\* MinRateIdx that takes the last of the items with the lowest rate.
RECURSIVE MinRateIdxLastTie(_, _, _, _)
MinRateIdxLastTie(rates, k, min_idx, min_rate) ==
    IF k > Len(rates) THEN min_idx
    ELSE IF rates[k] # 0 /\ (min_idx = 0 \/ min_rate = 0 \/ rates[k] <= min_rate)
         THEN MinRateIdxLastTie(rates, k + 1, k, rates[k])
         ELSE MinRateIdxLastTie(rates, k + 1, min_idx, min_rate)

\* The first index with the lowest non-zero rate, 0 for None.
RECURSIVE MinRateIdx(_, _, _, _)
MinRateIdx(rates, k, min_idx, min_rate) ==
    IF k > Len(rates) THEN min_idx
    ELSE IF rates[k] # 0 /\ (min_idx = 0 \/ min_rate = 0 \/ rates[k] < min_rate)
         THEN MinRateIdx(rates, k + 1, k, rates[k])
         ELSE MinRateIdx(rates, k + 1, min_idx, min_rate)

\* max(enumerate(rates), key=rate): the first index with the highest rate.
MaxRateIdx(rates) ==
    CHOOSE k \in 1..Len(rates) :
        /\ \A j \in 1..Len(rates) : rates[j] <= rates[k]
        /\ \A j \in 1..(k - 1) : rates[j] < rates[k]

\* One cent (d = CENT or -CENT) on item idx and on the line at the same index.
BumpTax(work, lines, idx, d) ==
    [work |-> [work EXCEPT ![idx].it.tax = @ + d, ![idx].it.total = @ + d],
     lines |-> [lines EXCEPT ![idx].amount = @ + d]]

\* The while loop of the tax redistribution.  kind is "ok", "raise" (items[None],
\* max() of an empty list) or "diverge" (the loop is still running after
\* LoopFuel iterations: tax_diff has stepped over zero and alternates).
RECURSIVE TaxLoop(_, _, _, _, _)
TaxLoop(work, lines, rates, tax_diff, fuel) ==
    IF ~(Abs(tax_diff) > EPS) THEN [kind |-> "ok", work |-> work, lines |-> lines]
    ELSE IF fuel = 0 THEN [kind |-> "diverge", work |-> work, lines |-> lines]
    ELSE IF tax_diff > 0
    THEN LET min_idx == MinRateIdx(rates, 1, 0, 0)
         IN IF min_idx = 0 THEN [kind |-> "raise", work |-> work, lines |-> lines]
            ELSE LET b == BumpTax(work, lines, min_idx, CENT)
                 IN TaxLoop(b.work, b.lines,
                            [rates EXCEPT ![min_idx] = TaxRate(b.work[min_idx].it)],
                            tax_diff - CENT, fuel - 1)
    ELSE IF rates = <<>> THEN [kind |-> "raise", work |-> work, lines |-> lines]
         ELSE LET max_idx == MaxRateIdx(rates)
                  b == BumpTax(work, lines, max_idx, -CENT)
              IN TaxLoop(b.work, b.lines,
                         [rates EXCEPT ![max_idx] = TaxRate(b.work[max_idx].it)],
                         tax_diff + CENT, fuel - 1)

\* The check of the itemized total against the transaction: the tax
\* redistribution, or the misc charge line.
Reconcile(t, order, work, lines) ==
    LET itemized_sum == sum_amounts(lines)
        itemized_diff == t.amount - itemized_sum
        itemized_tax == SumSeq(Map(LAMBDA e : e.it.tax, work))
        tax_diff == order.taxBefore - itemized_tax
    IN IF ~(Abs(itemized_diff) > EPS)
       THEN [kind |-> "ok", work |-> work, lines |-> lines]
       ELSE IF itemized_diff - tax_diff < EPS
       THEN IF \E k \in 1..Len(work) : work[k].it.subtotal = 0
            THEN [kind |-> "raise", work |-> work, lines |-> lines]
            ELSE TaxLoop(work, lines, Map(LAMBDA e : TaxRate(e.it), work),
                         tax_diff, LoopFuel)
       ELSE [kind |-> "ok", work |-> work,
             lines |-> Append(lines,
                              Line(t, <<"Misc Charge (Gift wrap, etc)">>,
                                   DEFAULT_MINT_CATEGORY, itemized_diff, TRUE))]

\* The input items with the entries of work that are input records (src > 0)
\* as the function left them.
WriteBack(its, work) ==
    [k \in 1..Len(its) |->
        IF \E j \in 1..Len(work) : work[j].src = k
        THEN work[CHOOSE j \in 1..Len(work) : work[j].src = k].it
        ELSE its[k]]

\* tag_as_order(t, matched_orders, tracking_to_items, order_id_to_items, stats).
\* feq: what == gives on two equal amounts one of which is rounded.
\* kind: "none" (returns None), "lines" (returns new_transactions), "raise",
\* "diverge".  claimed: the order that got MATCHED_TRANSACTION, 0 for none.
\* items: the input items afterwards.
\* tag_as_order that gives the order back when it returns None.
TagAsOrderReleasing(t, matched_orders, its, os, feq) ==
    LET c == ClosestOrder(t, os, matched_orders, 1, 0, LargeNumDays)
        order == os[c]
        res == ResolveItems(order, its)
        fixed == FixQuantity(order, SortItems(res.work))
        rec == Reconcile(t, order, fixed.work,
                         Synthesize(t, order, fixed.work, feq))
    IN IF c = 0
       THEN [kind |-> "none", claimed |-> 0, lines |-> <<>>, items |-> its]
       ELSE IF res.kind # "work"
       THEN [kind |-> res.kind, claimed |-> IF res.kind = "none" THEN 0 ELSE c,
             lines |-> <<>>, items |-> its]
       ELSE IF fixed.kind # "work"
       THEN [kind |-> fixed.kind, claimed |-> IF fixed.kind = "none" THEN 0 ELSE c,
             lines |-> <<>>, items |-> its]
       ELSE [kind |-> IF rec.kind = "ok" THEN "lines" ELSE rec.kind,
             claimed |-> c, lines |-> rec.lines,
             items |-> WriteBack(its, rec.work)]

tag_as_order(t, matched_orders, its, os, feq) ==
    LET c == ClosestOrder(t, os, matched_orders, 1, 0, LargeNumDays)
        order == os[c]
        res == ResolveItems(order, its)
        fixed == FixQuantity(order, SortItems(res.work))
        rec == Reconcile(t, order, fixed.work,
                         Synthesize(t, order, fixed.work, feq))
    IN IF c = 0
       THEN [kind |-> "none", claimed |-> 0, lines |-> <<>>, items |-> its]
       ELSE IF res.kind # "work"
       THEN [kind |-> res.kind, claimed |-> c, lines |-> <<>>, items |-> its]
       ELSE IF fixed.kind # "work"
       THEN [kind |-> fixed.kind, claimed |-> c, lines |-> <<>>, items |-> its]
       ELSE [kind |-> IF rec.kind = "ok" THEN "lines" ELSE rec.kind,
             claimed |-> c, lines |-> rec.lines,
             items |-> WriteBack(its, rec.work)]

\* ------------------------------------------------------------ tag_as_refund
\* The distinct values of Key over s, in the order of their first occurrence
\* (the insertion order of a dict).
RECURSIVE DistinctFrom(_, _, _, _)
DistinctFrom(Key(_), s, k, acc) ==
    IF k > Len(s) THEN acc
    ELSE IF \E j \in 1..Len(acc) : acc[j] = Key(s[k])
         THEN DistinctFrom(Key, s, k + 1, acc)
         ELSE DistinctFrom(Key, s, k + 1, Append(acc, Key(s[k])))
Distinct(Key(_), s) == DistinctFrom(Key, s, 1, <<>>)

\* The key of same_day_to_refunds, '{}_{}'.format(Order ID, Refund Date).
SameDayKey(r) == <<r.oid, r.date>>

\* RefundGroups without the test of the distinct refund dates.
RefundGroupsNoDateTest(rs) ==
    LET singles == [k \in 1..Len(rs) |-> <<k>>]
        oids == Distinct(LAMBDA r : r.oid, rs)
        byOrder == [j \in 1..Len(oids) |-> Indices(LAMBDA r : r.oid = oids[j], rs)]
        days == Distinct(SameDayKey, rs)
        byDay == [j \in 1..Len(days) |->
                     Indices(LAMBDA r : SameDayKey(r) = days[j], rs)]
    IN singles
       \o SelectSeq(byOrder, LAMBDA g : Len(g) # 1)
       \o SelectSeq(byDay, LAMBDA g : Len(g) # 1)

\* RefundGroups without the singleton group of a refund whose order has a
\* group of its own.
RefundGroupsMergedOnly(rs) ==
    LET singles == [k \in 1..Len(rs) |-> <<k>>]
        oids == Distinct(LAMBDA r : r.oid, rs)
        byOrder == [j \in 1..Len(oids) |-> Indices(LAMBDA r : r.oid = oids[j], rs)]
        merged == SelectSeq(byOrder,
                            LAMBDA g : Len(g) # 1
                                       /\ ~(Cardinality({rs[g[j]].date : j \in 1..Len(g)})
                                                <= 1))
        days == Distinct(SameDayKey, rs)
        byDay == [j \in 1..Len(days) |->
                     Indices(LAMBDA r : SameDayKey(r) = days[j], rs)]
    IN SelectSeq(singles,
                 LAMBDA s : ~\E j \in 1..Len(merged) :
                                 \E i \in 1..Len(merged[j]) : merged[j][i] = s[1])
       \o merged
       \o SelectSeq(byDay, LAMBDA g : Len(g) # 1)

\* The groups appended to amount_to_refunds, in the order of the appends: a
\* group is a sequence of indices into rs.
RefundGroups(rs) ==
    LET singles == [k \in 1..Len(rs) |-> <<k>>]
        oids == Distinct(LAMBDA r : r.oid, rs)
        byOrder == [j \in 1..Len(oids) |-> Indices(LAMBDA r : r.oid = oids[j], rs)]
        days == Distinct(SameDayKey, rs)
        byDay == [j \in 1..Len(days) |->
                     Indices(LAMBDA r : SameDayKey(r) = days[j], rs)]
    IN singles
       \o SelectSeq(byOrder,
                    LAMBDA g : Len(g) # 1
                               /\ ~(Cardinality({rs[g[j]].date : j \in 1..Len(g)})
                                        <= 1))
       \o SelectSeq(byDay, LAMBDA g : Len(g) # 1)

GroupTotal(rs, g) == SumSeq([j \in 1..Len(g) |-> rs[g[j]].total])

\* amount_to_refunds.get(amount)
RefundsOfAmount(rs, amount) ==
    SelectSeq(RefundGroups(rs), LAMBDA g : GroupTotal(rs, g) = amount)

\* ClosestRefund with the claim test on the first member of the group only.
RECURSIVE ClosestRefundFirstMember(_, _, _, _, _, _)
ClosestRefundFirstMember(t, rs, cands, k, closest_match, closest_match_num_days) ==
    IF k > Len(cands) THEN [raised |-> FALSE, match |-> closest_match]
    ELSE LET r == cands[k]
             dated == SelectSeq(r, LAMBDA d : rs[d].date # NoDate)
             num_days == t.odate - rs[dated[1]].date
         IN IF dated = <<>> THEN [raised |-> TRUE, match |-> <<>>]
            ELSE IF Abs(num_days) < MatchWindowDays
                    /\ Abs(num_days) < closest_match_num_days
                    /\ ~(rs[r[1]].matched # 0)
            THEN ClosestRefundFirstMember(t, rs, cands, k + 1, r, Abs(num_days))
            ELSE ClosestRefundFirstMember(t, rs, cands, k + 1, closest_match,
                                          closest_match_num_days)

\* The loop over the candidate groups.  next() without a default raises
\* StopIteration on a group none of whose members has a Refund Date.
RECURSIVE ClosestRefund(_, _, _, _, _, _)
ClosestRefund(t, rs, cands, k, closest_match, closest_match_num_days) ==
    IF k > Len(cands) THEN [raised |-> FALSE, match |-> closest_match]
    ELSE LET r == cands[k]
             dated == SelectSeq(r, LAMBDA d : rs[d].date # NoDate)
             num_days == t.odate - rs[dated[1]].date
         IN IF dated = <<>> THEN [raised |-> TRUE, match |-> <<>>]
            ELSE IF Abs(num_days) < MatchWindowDays
                    /\ Abs(num_days) < closest_match_num_days
                    /\ ~(\E j \in 1..Len(r) : rs[r[j]].matched # 0)
            THEN ClosestRefund(t, rs, cands, k + 1, r, Abs(num_days))
            ELSE ClosestRefund(t, rs, cands, k + 1, closest_match,
                               closest_match_num_days)

\* collapse_items_into_quantity that leaves Total Refund Amount as it was.
CollapseKeepsTotal(items) ==
    IF Len(items) <= 1 THEN items
    ELSE LET keys == Distinct(LAMBDA i : <<i.date, i.reason, i.title, i.total, i.asin, i.qty>>,
                              items)
         IN [j \in 1..Len(keys) |->
                LET same_items ==
                        SelectSeq(items,
                                  LAMBDA i : <<i.date, i.reason, i.title, i.total, i.asin, i.qty>>
                                             = keys[j])
                    qty == Len(same_items)
                IN IF qty = 1 THEN same_items[1]
                   ELSE [same_items[1] EXCEPT !.qty = qty,
                                              !.refundAmount = @ * qty,
                                              !.refundTax = @ * qty]]

\* The key of items_by_name.
CollapseKey(i) == <<i.date, i.reason, i.title, i.total, i.asin, i.qty>>

collapse_items_into_quantity(items) ==
    IF Len(items) <= 1 THEN items
    ELSE LET keys == Distinct(CollapseKey, items)
         IN [j \in 1..Len(keys) |->
                LET same_items == SelectSeq(items,
                                            LAMBDA i : CollapseKey(i) = keys[j])
                    qty == Len(same_items)
                IN IF qty = 1 THEN same_items[1]
                   ELSE [same_items[1] EXCEPT !.qty = qty,
                                              !.total = @ * qty,
                                              !.refundAmount = @ * qty,
                                              !.refundTax = @ * qty]]

\* tag_as_refund(t, refunds, stats).  kind: "none", "lines", "raise"; claimed:
\* the chosen group (indices into rs), <<>> for none.
tag_as_refund(t, cands, rs) ==
    LET sel == ClosestRefund(t, rs, cands, 1, <<>>, LargeNumDays)
        rows == collapse_items_into_quantity(
                    [j \in 1..Len(sel.match) |-> rs[sel.match[j]]])
    IN IF sel.raised THEN [kind |-> "raise", claimed |-> <<>>, lines |-> <<>>]
       ELSE IF sel.match = <<>>
       THEN [kind |-> "none", claimed |-> <<>>, lines |-> <<>>]
       ELSE [kind |-> "lines", claimed |-> sel.match,
             lines |-> [j \in 1..Len(rows) |->
                           Line(t, get_item_title(rows[j]),
                                AmazonToMint(rows[j].cat,
                                             DEFAULT_MINT_RETURN_CATEGORY),
                                -rows[j].total, FALSE)]]

\* ---------------------------------------------------------- itemize_new_trans
\* itemize_new_trans without the reversal.
ItemizeInGivenOrder(new_trans, prefix) ==
    [k \in 1..Len(new_trans) |-> [new_trans[k] EXCEPT !.merchant = <<prefix>> \o @]]

itemize_new_trans(new_trans, prefix) ==
    Reverse([k \in 1..Len(new_trans) |->
                [new_trans[k] EXCEPT !.merchant = <<prefix>> \o @]])

DEFAULT_MERCHANT_PREFIX == "Amazon.com: "
DEFAULT_MERCHANT_REFUND_PREFIX == "Amazon.com refund: "
get_prefix(is_debit) ==
    IF is_debit THEN DEFAULT_MERCHANT_PREFIX ELSE DEFAULT_MERCHANT_REFUND_PREFIX

\* ------------------------------------------------------------------- state
VARIABLES
    mint,       \* the transactions tag_transactions is given
    items,      \* the Items report: the records tag_transactions is given
    orders,     \* the Orders report; matched is MATCHED_TRANSACTION (0: absent)
    refunds,    \* the Refunds report; matched likewise
    trans,      \* the transactions the loop of tag_transactions goes through
    itemize,    \* the itemize argument
    pos,        \* the index in trans of the next transaction of the loop
    result,     \* the list tag_transactions builds
    calls,      \* which matcher each transaction was handed to
    pc,         \* where the run is
    run,        \* 1, or 2 in a second call of tag_transactions
    result1,    \* the list the first call returned
    input,      \* the reports as they were given
    filtered,   \* what sanity_check_and_filter_tags returned
    stats,      \* the counters sanity_check_and_filter_tags sets
    args,       \* the category table and retag_changed of the validation
    sent,       \* the pairs write_tags_to_mint has sent
    float_eq    \* what == gives on equal amounts one of which is rounded

vars == <<mint, items, orders, refunds, trans, itemize, pos, result, calls, pc, run,
          result1, input, filtered, stats, args, sent, float_eq>>

\* ------------------------------------------------------------------ inputs
MkItem(oid, tracking, qty, unit, tax, cat, title) ==
    [oid |-> oid, tracking |-> tracking, qty |-> qty, unit |-> unit,
     subtotal |-> unit * qty, tax |-> tax, total |-> unit * qty + tax,
     cat |-> cat, title |-> title, origQty |-> 0, approx |-> FALSE]

MkOrder(oid, tracking, shipDate, subtotal, shipping, taxCharged, taxBefore, promos, total) ==
    [oid |-> oid, tracking |-> tracking, shipDate |-> shipDate,
     subtotal |-> subtotal, shipping |-> shipping, taxCharged |-> taxCharged,
     taxBefore |-> taxBefore, promos |-> promos, total |-> total, matched |-> 0]

\* parse_amazon_csv sets Total Refund Amount to the sum of the two amounts.
MkRefund(oid, date, refundAmount, refundTax, qty, title) ==
    [oid |-> oid, date |-> date, refundAmount |-> refundAmount,
     refundTax |-> refundTax, total |-> refundAmount + refundTax, qty |-> qty,
     title |-> title, reason |-> "Customer return", asin |-> "B01",
     cat |-> "Book", matched |-> 0]

\* pythonify_mint_dict: a credit's amount is negative.  pid = 0: no pid;
\* children = <<>>: no CHILDREN.
MkTrans(id, odate, amount, isDebit, merchant) ==
    [id |-> id, odate |-> odate, amount |-> amount, isDebit |-> isDebit,
     merchant |-> merchant, category |-> "Shopping", categoryId |-> 0,
     omerchant |-> "AMAZON MKTPLACE PMTS", isPending |-> FALSE,
     isChild |-> FALSE, pid |-> 0, children |-> <<>>]

\* A child of an earlier split of the transaction pid.
MkChild(id, pid, amount, isDebit, merchant, category) ==
    [MkTrans(id, 1, amount, isDebit, merchant) EXCEPT
        !.isChild = TRUE, !.pid = pid, !.category = category]

Days == 1..MaxDay

Start(its, os, rs, ts, iz, feqs) ==
    /\ items = its
    /\ orders = os
    /\ refunds = rs
    /\ mint = ts
    /\ trans = <<>>
    /\ itemize = iz
    /\ pos = 1
    /\ result = <<>>
    /\ calls = <<>>
    /\ pc = "start"
    /\ run = 1
    /\ result1 = <<>>
    /\ input = [items |-> its, orders |-> os, refunds |-> rs]
    /\ filtered = <<>>
    /\ stats = [no_change |-> 0, already_has_prefix |-> 0, to_be_updated |-> 0]
    /\ args = [lookup |-> <<>>, retag_changed |-> FALSE]
    /\ sent = <<>>
    /\ float_eq \in feqs

\* One charge of one order with one or two items: the arithmetic of
\* tag_as_order.  float_eq is read only when a shipping charge and a promotion
\* meet an item whose quantity was cut down.
InitCharge ==
    \E qty \in 1..MaxQty, taxA \in {0, 1, 2}, second \in {0, 1, 2},
       tracking \in {"", "T1"}, sub \in {0, 10, 15, 20}, ship \in {0, 3},
       promos \in {0, 3}, taxC \in {0, 1, 2}, taxB \in {0, 1},
       extra \in {-1, 0, 1} :
        LET total == sub + ship + taxC - promos + extra
            a == MkItem("O1", "T1", qty, Cents(10), Cents(taxA), "Book", "Novel")
            b == MkItem("O1", "T1", 1, Cents(5), Cents(second - 1), "Toy", "Kite")
            o == MkOrder("O1", tracking, 1, Cents(sub), Cents(ship), Cents(taxC),
                         Cents(taxC + taxB), Cents(promos), Cents(total))
        IN /\ total > 0
           /\ Start(IF second = 0 THEN <<a>> ELSE <<a, b>>, <<o>>, <<>>,
                    <<MkTrans(1, 1, Cents(total), TRUE, <<"Amazon">>)>>, TRUE,
                    IF qty > 1 /\ ship # 0 /\ promos # 0 THEN BOOLEAN
                    ELSE {FALSE})

Oid(k) == "O" \o ToString(k)
Trk(k) == "T" \o ToString(k)

\* An order of n units at 10 cents with one cent of tax per unit, charged
\* 11 cents per unit.
PlainOrder(k, n, day) ==
    MkOrder(Oid(k), Trk(k), day, Cents(10 * n), 0, Cents(n), Cents(n), 0,
            Cents(11 * n))
PlainItem(k, n) ==
    MkItem(Oid(k), Trk(k), n, Cents(10), Cents(n), "Book", "Novel")

\* Two orders and two charges: the dates and the claims.
InitOrders ==
    \E d1 \in Days, d2 \in Days, e1 \in Days, e2 \in Days,
       n2 \in {1, 2}, m2 \in {1, 2, 3} :
        Start(<<PlainItem(1, 1), PlainItem(2, n2)>>,
              <<PlainOrder(1, 1, d1), PlainOrder(2, n2, d2)>>, <<>>,
              <<MkTrans(1, e1, Cents(11), TRUE, <<"Amazon">>),
                MkTrans(2, e2, Cents(11 * m2), TRUE, <<"Amazon">>)>>, TRUE,
              {FALSE})

\* Two refunds and two credits: the dates, the groups and the claims.
InitRefunds ==
    \E d1 \in {NoDate} \cup Days, d2 \in {NoDate} \cup Days,
       a1 \in {100, 200}, a2 \in {100, 200}, o2 \in {1, 2},
       e1 \in {1, MaxDay}, e2 \in {1, MaxDay},
       c1 \in {100, 200, 300}, c2 \in {100, 200, 300} :
        Start(<<>>, <<>>,
              <<MkRefund(Oid(1), d1, Cents(a1), 0, 1, "Novel"),
                MkRefund(Oid(o2), d2, Cents(a2), 0, 1, "Novel")>>,
              <<MkTrans(1, e1, -Cents(c1), FALSE, <<"Amazon">>),
                MkTrans(2, e2, -Cents(c2), FALSE, <<"Amazon">>)>>, TRUE,
              {FALSE})

\* Three refund rows of 100 cents and two credits: the groups of an order
\* and of a day, and rows that collapse.
InitRefundRows ==
    \E o2 \in {1, 2}, o3 \in {1, 2}, d1 \in {1, 2}, d2 \in {1, 2}, d3 \in {1, 2},
       title3 \in {"Novel", "Atlas"}, c1 \in {100, 200, 300}, c2 \in {100, 200, 300} :
        Start(<<>>, <<>>,
              <<MkRefund(Oid(1), d1, Cents(90), Cents(10), 1, "Novel"),
                MkRefund(Oid(o2), d2, Cents(90), Cents(10), 1, "Novel"),
                MkRefund(Oid(o3), d3, Cents(90), Cents(10), 1, title3)>>,
              <<MkTrans(1, 1, -Cents(c1), FALSE, <<"Amazon">>),
                MkTrans(2, 2, -Cents(c2), FALSE, <<"Amazon">>)>>, TRUE,
              {FALSE})

\* Three orders (a plain one, one with shipping, one charged a cent less than
\* its item), one refund and two transactions of either kind, in both modes.
MixedTrans(id) ==
    {MkTrans(id, 1, Cents(11), TRUE, <<"Amazon">>),
     MkTrans(id, 1, Cents(11), TRUE, <<DEFAULT_MERCHANT_PREFIX, "Novel">>),
     MkTrans(id, 1, Cents(100), TRUE, <<"Amazon">>),
     MkTrans(id, 1, Cents(7), TRUE, <<"Amazon">>),
     MkTrans(id, 1, Cents(14), TRUE, <<"Amazon">>),
     MkTrans(id, 1, Cents(10), TRUE, <<"Amazon">>),
     MkTrans(id, 1, -Cents(100), FALSE, <<"Amazon">>),
     MkTrans(id, 1, -Cents(100), FALSE, <<DEFAULT_MERCHANT_REFUND_PREFIX, "Novel">>),
     MkTrans(id, 1, -Cents(11), FALSE, <<"Amazon">>),
     MkTrans(id, 1, -Cents(7), FALSE, <<"Amazon">>)}
InitMixed ==
    \E t1 \in MixedTrans(1), t2 \in MixedTrans(2), iz \in BOOLEAN :
        Start(<<PlainItem(1, 1), PlainItem(2, 1), PlainItem(3, 1)>>,
              <<PlainOrder(1, 1, 1),
                [PlainOrder(2, 1, 1) EXCEPT !.shipping = Cents(3),
                                            !.total = Cents(14)],
                [PlainOrder(3, 1, 1) EXCEPT !.total = Cents(10)]>>,
              <<MkRefund(Oid(1), 1, Cents(90), Cents(10), 1, "Novel")>>,
              <<t1, t2>>, iz, {FALSE})

\* The orders and the refund of InitMixed and three transactions, among them
\* children of earlier splits, a pending one and one that is not Amazon's.
SplitTrans(id) ==
    {MkTrans(id, 1, Cents(11), TRUE, <<"Amazon">>),
     [MkTrans(id, 1, Cents(11), TRUE, <<"Amazon">>) EXCEPT !.isPending = TRUE],
     [MkTrans(id, 1, Cents(11), TRUE, <<"Amazon">>) EXCEPT !.omerchant = "WALMART"],
     MkChild(id, 7, Cents(11), TRUE, <<"Amazon">>, "Shopping"),
     MkChild(id, 7, Cents(11), TRUE, <<DEFAULT_MERCHANT_PREFIX, "Novel">>, "Books"),
     MkChild(id, 7, Cents(3), TRUE, <<DEFAULT_MERCHANT_PREFIX, "Shipping">>, "Shipping"),
     MkChild(id, 7, Cents(3), TRUE, <<DEFAULT_MERCHANT_PREFIX, "Shipping">>, "Shopping"),
     MkChild(id, 8, -Cents(100), FALSE, <<DEFAULT_MERCHANT_REFUND_PREFIX, "Novel">>, "Books"),
     MkChild(id, 8, Cents(100), TRUE, <<"Amazon">>, "Shopping")}
InitSplit ==
    \E t1 \in SplitTrans(1), t2 \in SplitTrans(2), t3 \in SplitTrans(3) :
        Start(<<PlainItem(1, 1), PlainItem(2, 1), PlainItem(3, 1)>>,
              <<PlainOrder(1, 1, 1),
                [PlainOrder(2, 1, 1) EXCEPT !.shipping = Cents(3),
                                            !.total = Cents(14)],
                [PlainOrder(3, 1, 1) EXCEPT !.total = Cents(10)]>>,
              <<MkRefund(Oid(1), 1, Cents(90), Cents(10), 1, "Novel")>>,
              <<t1, t2, t3>>, TRUE, {FALSE})

\* One item of quantity 3 at 1,000,000 micro-usd a unit and the charge of a
\* shipment of part of it.
InitSlice ==
    \E taxA \in {0, 3, 10}, tracking \in {"", "T1"}, sub \in {0, 100, 200, 300},
       taxC \in {0, 3, 7, 10} :
        Start(<<MkItem("O1", "T1", 3, Cents(100), Cents(taxA), "Book", "Novel")>>,
              <<MkOrder("O1", tracking, 1, Cents(sub), 0, Cents(taxC), Cents(taxC),
                        0, Cents(sub + taxC))>>,
              <<>>,
              <<MkTrans(1, 1, Cents(sub + taxC), TRUE, <<"Amazon">>)>>, TRUE,
              {FALSE})

\* Two items of one shipment, of 1000 and 500 cents, whose taxes differ from
\* the order's tax by up to two cents either way: the tax redistribution.
InitTaxPair ==
    \E taxA \in {0, 49, 50}, taxB \in {0, 25, 49}, d \in {-2, -1, 1, 2} :
        LET taxC == taxA + taxB + d
        IN /\ taxC >= 0
           /\ Start(<<MkItem("O1", "T1", 1, Cents(1000), Cents(taxA), "Book", "Atlas"),
                      MkItem("O1", "T1", 1, Cents(500), Cents(taxB), "Book", "Novel")>>,
                    <<MkOrder("O1", "T1", 1, Cents(1500), 0, Cents(taxC), Cents(taxC),
                              0, Cents(1500 + taxC))>>,
                    <<>>,
                    <<MkTrans(1, 1, Cents(1500 + taxC), TRUE, <<"Amazon">>)>>, TRUE,
                    {FALSE})

\* An order of 25 cents whose items cannot be made out (none of its order
\* id, none at the order's sub-total, no fitting quantity, two items that do
\* not add up), with or without a second order of the same total that has
\* its item, and two charges of 25 cents.
AbandonItems ==
    {<<MkItem("O9", "T9", 1, Cents(25), 0, "Book", "Atlas")>>,
     <<MkItem("O1", "T9", 2, Cents(10), 0, "Book", "Atlas")>>,
     <<MkItem("O1", "T1", 2, Cents(10), 0, "Book", "Atlas")>>,
     <<MkItem("O1", "T1", 1, Cents(10), 0, "Book", "Atlas"),
       MkItem("O1", "T1", 1, Cents(5), 0, "Toy", "Kite")>>}
InitAbandon ==
    \E its \in AbandonItems, second \in BOOLEAN, d1 \in Days, d2 \in Days,
       e1 \in {1, 2}, e2 \in {1, 2} :
        Start(its \o (IF second
                      THEN <<MkItem("O2", "T2", 1, Cents(25), 0, "Book", "Novel")>>
                      ELSE <<>>),
              <<MkOrder("O1", "T1", d1, Cents(25), 0, 0, 0, 0, Cents(25))>>
                  \o (IF second
                      THEN <<MkOrder("O2", "T2", d2, Cents(25), 0, 0, 0, 0, Cents(25))>>
                      ELSE <<>>),
              <<>>,
              <<MkTrans(1, e1, Cents(25), TRUE, <<"Amazon">>),
                MkTrans(2, e2, Cents(25), TRUE, <<"Amazon">>)>>, TRUE,
              {FALSE})

Init ==
    \/ InitCharge
    \/ InitOrders
    \/ InitRefunds
    \/ InitRefundRows
    \/ InitMixed
    \/ InitSplit
    \/ InitSlice
    \/ InitTaxPair
    \/ InitAbandon

\* ----------------------------------------------------------- tag_transactions
\* amount_to_orders.get(amount): indices into os, in input order.
OrdersOfAmount(os, amount) == Indices(LAMBDA o : o.total = amount, os)

\* 'amazon' in t['omerchant'].lower(), for the descriptions of the inputs.
AmazonInDesc(t) == t.omerchant \in {"AMAZON MKTPLACE PMTS", "Amazon.com"}

\* unsplit_transactions that keeps the amount of the first child.
UnsplitFirstChildAmount(ts) ==
    LET plain == SelectSeq(ts, LAMBDA t : ~t.isChild)
        kids == SelectSeq(ts, LAMBDA t : t.isChild)
        pids == Distinct(LAMBDA t : t.pid, kids)
        Parent(p_id) ==
            LET children == SelectSeq(kids, LAMBDA t : t.pid = p_id)
            IN [children[1] EXCEPT !.id = p_id,
                                   !.isChild = FALSE,
                                   !.pid = 0,
                                   !.isDebit = children[1].amount > 0,
                                   !.children = children]
    IN plain \o [j \in 1..Len(pids) |-> Parent(pids[j])]

\* unsplit_transactions(trans, stats): the transactions that are no child,
\* then one parent per pid in the order of the first child of each.
unsplit_transactions(ts) ==
    LET plain == SelectSeq(ts, LAMBDA t : ~t.isChild)
        kids == SelectSeq(ts, LAMBDA t : t.isChild)
        pids == Distinct(LAMBDA t : t.pid, kids)
        Parent(p_id) ==
            LET children == SelectSeq(kids, LAMBDA t : t.pid = p_id)
                amount == sum_amounts(children)
            IN [children[1] EXCEPT !.id = p_id,
                                   !.isChild = FALSE,
                                   !.pid = 0,
                                   !.amount = amount,
                                   !.isDebit = amount > 0,
                                   !.children = children]
    IN plain \o [j \in 1..Len(pids) |-> Parent(pids[j])]

\* tag_transactions up to its loop: the transactions that are Amazon's and
\* not pending, unsplit.  (The indexes it builds are OrdersOfAmount,
\* ResolveItems and RefundsOfAmount.)
Begin ==
    /\ pc = "start"
    /\ pc' = "tag"
    /\ trans' = unsplit_transactions(
                    SelectSeq(SelectSeq(mint, AmazonInDesc),
                              LAMBDA t : ~t.isPending))
    /\ UNCHANGED <<mint, items, orders, refunds, itemize, pos, result, calls,
                   run, result1, input, filtered, stats, args, sent, float_eq>>

\* Emit with the pair put at the front of the list.
EmitAtFront(t, kind, lines) ==
    IF kind = "raise" THEN pc' = "crashed" /\ UNCHANGED <<pos, result>>
    ELSE IF kind = "diverge" THEN pc' = "hung" /\ UNCHANGED <<pos, result>>
    ELSE IF kind = "none" \/ lines = <<>>
    THEN pos' = pos + 1 /\ UNCHANGED <<pc, result>>
    ELSE IF itemize
    THEN /\ result' = <<[pos |-> pos, orig |-> t, lines |-> lines,
                         new |-> itemize_new_trans(lines, get_prefix(t.isDebit))]>>
                      \o result
         /\ pos' = pos + 1
         /\ pc' = pc
    ELSE pc' = "crashed" /\ UNCHANGED <<pos, result>>

\* What the loop does with what a matcher returned: raise, continue, or
\* append the pair (lines keeps new_trans as the matcher returned it).
\* summarize_new_trans reads the undefined names items and order: a NameError.
Emit(t, kind, lines) ==
    IF kind = "raise" THEN pc' = "crashed" /\ UNCHANGED <<pos, result>>
    ELSE IF kind = "diverge" THEN pc' = "hung" /\ UNCHANGED <<pos, result>>
    ELSE IF kind = "none" \/ lines = <<>>
    THEN pos' = pos + 1 /\ UNCHANGED <<pc, result>>
    ELSE IF itemize
    THEN /\ result' = Append(result,
                             [pos |-> pos, orig |-> t, lines |-> lines,
                              new |-> itemize_new_trans(lines, get_prefix(t.isDebit))])
         /\ pos' = pos + 1
         /\ pc' = pc
    ELSE pc' = "crashed" /\ UNCHANGED <<pos, result>>

Looping == pc = "tag" /\ pos <= Len(trans)

\* if t['isDebit'] and amount in amount_to_orders
TagOrder ==
    /\ Looping
    /\ trans[pos].isDebit
    /\ OrdersOfAmount(orders, trans[pos].amount) # <<>>
    /\ LET t == trans[pos]
           r == tag_as_order(t, OrdersOfAmount(orders, t.amount), items, orders,
                             float_eq)
       IN /\ orders' = IF r.claimed = 0 THEN orders
                       ELSE [orders EXCEPT ![r.claimed].matched = pos]
          /\ items' = r.items
          /\ calls' = Append(calls, [pos |-> pos, matcher |-> "order"])
          /\ Emit(t, r.kind, r.lines)
    /\ UNCHANGED <<mint, refunds, trans, itemize, run, result1, input, filtered,
                   stats, args, sent, float_eq>>

\* elif not t['isDebit'] and -amount in amount_to_refunds
TagRefund ==
    /\ Looping
    /\ ~(trans[pos].isDebit /\ OrdersOfAmount(orders, trans[pos].amount) # <<>>)
    /\ ~trans[pos].isDebit
    /\ RefundsOfAmount(refunds, -trans[pos].amount) # <<>>
    /\ LET t == trans[pos]
           r == tag_as_refund(t, RefundsOfAmount(refunds, -t.amount), refunds)
       IN /\ refunds' = [k \in 1..Len(refunds) |->
                            IF \E j \in 1..Len(r.claimed) : r.claimed[j] = k
                            THEN [refunds[k] EXCEPT !.matched = pos]
                            ELSE refunds[k]]
          /\ calls' = Append(calls, [pos |-> pos, matcher |-> "refund"])
          /\ Emit(t, r.kind, r.lines)
    /\ UNCHANGED <<mint, items, orders, trans, itemize, run, result1, input, filtered,
                   stats, args, sent, float_eq>>

\* else: continue
NoPurchase ==
    /\ Looping
    /\ ~(trans[pos].isDebit /\ OrdersOfAmount(orders, trans[pos].amount) # <<>>)
    /\ ~(~trans[pos].isDebit /\ RefundsOfAmount(refunds, -trans[pos].amount) # <<>>)
    /\ pos' = pos + 1
    /\ UNCHANGED <<mint, items, orders, refunds, trans, itemize, result, calls, pc,
                   run, result1, input, filtered, stats, args, sent, float_eq>>

Returned == pc = "tag" /\ pos > Len(trans)

\* A second call of tag_transactions on the same records, the claim flags
\* cleared.  The second call's list is compared with the first's.
Rerun ==
    /\ Returned
    /\ run = 1
    /\ run' = 2
    /\ result1' = result
    /\ result' = <<>>
    /\ calls' = <<>>
    /\ pos' = 1
    /\ orders' = [k \in 1..Len(orders) |-> [orders[k] EXCEPT !.matched = 0]]
    /\ refunds' = [k \in 1..Len(refunds) |-> [refunds[k] EXCEPT !.matched = 0]]
    /\ UNCHANGED <<mint, items, trans, itemize, pc, input, filtered, stats, args, sent,
                   float_eq>>

\* ------------------------------------------- sanity_check_and_filter_tags
\* mint_category_name_to_id, as get_trans_and_categories_from_mint builds it:
\* the full table, and one of an account that lacks a category.
CategoryIdOf(name) ==
    IF name = "Shopping" THEN 2
    ELSE IF name = "Books" THEN 202
    ELSE IF name = "Groceries" THEN 701
    ELSE IF name = "Shipping" THEN 1405
    ELSE 2003
CategoryLookups ==
    {[n \in {"Shopping", "Books", "Groceries", "Shipping", "Returned Purchase"}
         |-> CategoryIdOf(n)],
     [n \in {"Shopping", "Books", "Groceries", "Returned Purchase"}
         |-> CategoryIdOf(n)]}

\* assert abs(sum_amounts([orig_trans]) - sum_amounts(new_trans)) < MICRO_USD_EPS
Conserved(pair) ==
    Abs(sum_amounts(<<pair.orig>>) - sum_amounts(pair.new)) < EPS

\* assert trans['category'] in mint_category_name_to_id
CategoriesKnown(pair, lookup) ==
    \A k \in 1..Len(pair.new) : pair.new[k].category \in DOMAIN lookup

\* MintTransWrapper.get_tuple
get_tuple(d) == <<d.merchant, micro_usd_to_usd_string(d.amount), d.category>>

\* original_and_new_are_diff that takes the tuple of the original itself, also
\* when it has children.
OriginalItselfIsDiff(pair) ==
    {get_tuple(pair.orig)} # {get_tuple(pair.new[k]) : k \in 1..Len(pair.new)}

original_and_new_are_diff(pair) ==
    LET orig == IF pair.orig.children = <<>> THEN {get_tuple(pair.orig)}
                ELSE {get_tuple(pair.orig.children[k]) :
                        k \in 1..Len(pair.orig.children)}
        new == {get_tuple(pair.new[k]) : k \in 1..Len(pair.new)}
    IN orig # new

\* orig_missing_prefix with the prefix of a debit for every transaction.
OrigMissingDebitPrefix(pair) ==
    ~(Len(pair.orig.merchant) >= 1
      /\ pair.orig.merchant[1] = get_prefix(TRUE))

orig_missing_prefix(pair) ==
    ~(Len(pair.orig.merchant) >= 1
      /\ pair.orig.merchant[1] = get_prefix(pair.orig.isDebit))

\* sanity_check_and_filter_tags without the assertion on the amounts.
SanityCheckNoConservation(orig_trans_to_tagged, lookup, retag_changed) ==
    LET WithId(tr) == [tr EXCEPT !.categoryId = lookup[tr.category]]
        tagged == [k \in 1..Len(orig_trans_to_tagged) |->
                      [orig_trans_to_tagged[k] EXCEPT
                          !.new = Map(WithId, orig_trans_to_tagged[k].new)]]
        changed == SelectSeq(tagged, original_and_new_are_diff)
        kept == IF ~retag_changed THEN SelectSeq(changed, orig_missing_prefix)
                ELSE changed
    IN IF ~(\A k \in 1..Len(orig_trans_to_tagged) :
                CategoriesKnown(orig_trans_to_tagged[k], lookup))
       THEN [ok |-> FALSE, tagged |-> orig_trans_to_tagged, filtered |-> <<>>,
             stats |-> stats]
       ELSE [ok |-> TRUE, tagged |-> tagged, filtered |-> kept,
             stats |-> [no_change |-> Len(tagged) - Len(changed),
                        already_has_prefix |->
                            IF ~retag_changed THEN Len(changed) - Len(kept)
                            ELSE stats.already_has_prefix,
                        to_be_updated |-> Len(kept)]]

\* sanity_check_and_filter_tags without the assignment of categoryId.
SanityCheckNoCategoryId(orig_trans_to_tagged, lookup, retag_changed) ==
    LET tagged == orig_trans_to_tagged
        changed == SelectSeq(tagged, original_and_new_are_diff)
        kept == IF ~retag_changed THEN SelectSeq(changed, orig_missing_prefix)
                ELSE changed
    IN IF ~(\A k \in 1..Len(orig_trans_to_tagged) :
                Conserved(orig_trans_to_tagged[k]))
          \/ ~(\A k \in 1..Len(orig_trans_to_tagged) :
                CategoriesKnown(orig_trans_to_tagged[k], lookup))
       THEN [ok |-> FALSE, tagged |-> orig_trans_to_tagged, filtered |-> <<>>,
             stats |-> stats]
       ELSE [ok |-> TRUE, tagged |-> tagged, filtered |-> kept,
             stats |-> [no_change |-> Len(tagged) - Len(changed),
                        already_has_prefix |->
                            IF ~retag_changed THEN Len(changed) - Len(kept)
                            ELSE stats.already_has_prefix,
                        to_be_updated |-> Len(kept)]]

\* The function as a whole: ok is FALSE when an assertion fails.
sanity_check_and_filter_tags(orig_trans_to_tagged, lookup, retag_changed) ==
    LET WithId(tr) == [tr EXCEPT !.categoryId = lookup[tr.category]]
        tagged == [k \in 1..Len(orig_trans_to_tagged) |->
                      [orig_trans_to_tagged[k] EXCEPT
                          !.new = Map(WithId, orig_trans_to_tagged[k].new)]]
        changed == SelectSeq(tagged, original_and_new_are_diff)
        kept == IF ~retag_changed THEN SelectSeq(changed, orig_missing_prefix)
                ELSE changed
    IN IF ~(\A k \in 1..Len(orig_trans_to_tagged) :
                Conserved(orig_trans_to_tagged[k]))
          \/ ~(\A k \in 1..Len(orig_trans_to_tagged) :
                CategoriesKnown(orig_trans_to_tagged[k], lookup))
       THEN [ok |-> FALSE, tagged |-> orig_trans_to_tagged, filtered |-> <<>>,
             stats |-> stats]
       ELSE [ok |-> TRUE, tagged |-> tagged, filtered |-> kept,
             stats |-> [no_change |-> Len(tagged) - Len(changed),
                        already_has_prefix |->
                            IF ~retag_changed THEN Len(changed) - Len(kept)
                            ELSE stats.already_has_prefix,
                        to_be_updated |-> Len(kept)]]

\* ---------------------------------------------------------------------- main
\* main, from the return of tag_transactions: the call of
\* sanity_check_and_filter_tags; an assertion that fails ends the run.
SanityCheck ==
    /\ Returned
    /\ run = 1
    /\ \E lookup \in CategoryLookups, retag_changed \in BOOLEAN :
        LET r == sanity_check_and_filter_tags(result, lookup, retag_changed)
        IN /\ pc' = IF r.ok THEN "checked" ELSE "aborted"
           /\ result' = r.tagged
           /\ filtered' = r.filtered
           /\ stats' = r.stats
           /\ args' = [lookup |-> lookup, retag_changed |-> retag_changed]
    /\ UNCHANGED <<mint, items, orders, refunds, trans, itemize, pos, calls, run,
                   result1, input, sent, float_eq>>

\* if not filtered: exit(0)
ExitNoTags ==
    /\ pc = "checked"
    /\ filtered = <<>>
    /\ pc' = "exit"
    /\ UNCHANGED <<mint, items, orders, refunds, trans, itemize, pos, result, calls,
                   run, result1, input, filtered, stats, args, sent, float_eq>>

\* if args.dry_run: print_dry_run(filtered)
DryRun ==
    /\ pc = "checked"
    /\ filtered # <<>>
    /\ pc' = "dry_run"
    /\ UNCHANGED <<mint, items, orders, refunds, trans, itemize, pos, result, calls,
                   run, result1, input, filtered, stats, args, sent, float_eq>>

\* else: write_tags_to_mint(filtered, mint_driver): one request per pair.
WriteTags ==
    /\ pc = "checked"
    /\ filtered # <<>>
    /\ sent' = filtered
    /\ pc' = "written"
    /\ UNCHANGED <<mint, items, orders, refunds, trans, itemize, pos, result, calls,
                   run, result1, input, filtered, stats, args, float_eq>>

Next ==
    \/ Begin
    \/ TagOrder
    \/ TagRefund
    \/ NoPurchase
    \/ Rerun
    \/ SanityCheck
    \/ ExitNoTags
    \/ DryRun
    \/ WriteTags

Spec == Init /\ [][Next]_vars

\* ------------------------------------------------------------------ properties
\* The members of a refund group, the first member that has a Refund Date and
\* the window, as the properties below speak of them.
Members(g) == {g[j] : j \in 1..Len(g)}
GroupDated(g) == SelectSeq(g, LAMBDA d : refunds[d].date # NoDate)
GroupDate(g) == refunds[GroupDated(g)[1]].date
GroupInWindow(t, g) == GroupDated(g) # <<>> /\ Abs(t.odate - GroupDate(g)) <= 3
GroupUnclaimed(g) == \A j \in 1..Len(g) : refunds[g[j]].matched = 0
OrderInWindow(t, o) == Abs(t.odate - o.shipDate) <= 3

\* The records whose claim flag a step changes.
NewOrders == {k \in 1..Len(orders) : orders'[k].matched # orders[k].matched}
NewRefunds == {k \in 1..Len(refunds) : refunds'[k].matched # refunds[k].matched}

\* The step of a transaction for which the matcher returned None.
NothingMatched ==
    /\ pc' = pc
    /\ pos' = pos + 1
    /\ result' = result
    /\ orders' = orders
    /\ refunds' = refunds
    /\ items' = items

\* C1: every pair that tag_transactions returns in itemize mode conserves the
\* amount: the replacement lines sum to the transaction's amount within 50
\* micro-usd, so the assertion of sanity_check_and_filter_tags cannot fail.
C1_LinesSumToTransaction ==
    \A k \in 1..Len(result) : Conserved(result[k])

\* C2: within one run an order that carries MATCHED_TRANSACTION keeps it as
\* it is, so the flag is only ever written on an order without it (by the
\* transaction being processed) and a claimed order is not selected again.
C2_OrderClaimedOnce ==
    [][run' = run =>
        \A k \in 1..Len(orders) :
            /\ orders[k].matched # 0 => orders'[k].matched = orders[k].matched
            /\ k \in NewOrders => orders'[k].matched = pos]_vars

\* A claimed order was a candidate, within the window, of a later transaction
\* that tag_as_order was called for, and it was not claimed again.
C2_ClaimedOrderPassedOver ==
    /\ run = 1
    /\ Len(calls) = 2
    /\ calls[2].matcher = "order"
    /\ \E k \in 1..Len(orders) :
        /\ orders[k].matched = calls[1].pos
        /\ orders[k].total = trans[calls[2].pos].amount
        /\ OrderInWindow(trans[calls[2].pos], orders[k])
    /\ \A k \in 1..Len(orders) : orders[k].matched # calls[2].pos

\* C3: within one run a refund that carries MATCHED_TRANSACTION keeps it as
\* it is, and the refunds a step claims are exactly the members of one
\* candidate group, all claimed for the transaction being processed: no group
\* with a claimed member is chosen, though a refund is in several groups.
C3_RefundClaimedOnce ==
    [][run' = run =>
        /\ \A k \in 1..Len(refunds) :
            refunds[k].matched # 0 => refunds'[k].matched = refunds[k].matched
        /\ NewRefunds # {} =>
            LET cands == RefundsOfAmount(refunds, -trans[pos].amount)
            IN /\ \E c \in 1..Len(cands) : Members(cands[c]) = NewRefunds
               /\ \A k \in NewRefunds : refunds'[k].matched = pos]_vars

\* A group of several refunds, within the window, with one member claimed by
\* the first transaction and one unclaimed, was a candidate of the second
\* transaction, and none of its members was claimed for it.
C3_GroupWithClaimedMemberPassedOver ==
    /\ run = 1
    /\ pc = "tag"
    /\ pos = 3
    /\ Len(calls) = 2
    /\ calls[2].matcher = "refund"
    /\ LET cands == RefundsOfAmount(refunds, -trans[2].amount)
       IN \E c \in 1..Len(cands) :
            /\ Len(cands[c]) >= 2
            /\ GroupInWindow(trans[2], cands[c])
            /\ \E k \in Members(cands[c]) : refunds[k].matched = 1
            /\ \E k \in Members(cands[c]) : refunds[k].matched = 0
    /\ \A k \in 1..Len(refunds) : refunds[k].matched # 2

\* C4: a matcher claims only a candidate whose date is at most 3 days from
\* the transaction's order date, and when no unclaimed candidate is within
\* the window it returns None: the loop goes on to the next transaction and
\* nothing is claimed.
C4_WindowOrNone ==
    [][(run' = run /\ calls' # calls) =>
        LET t == trans[pos]
            ocands == OrdersOfAmount(orders, t.amount)
            rcands == RefundsOfAmount(refunds, -t.amount)
            viaOrder == calls'[Len(calls')].matcher = "order"
        IN /\ \A k \in NewOrders : OrderInWindow(t, orders[k])
           /\ NewRefunds # {} =>
                \E c \in 1..Len(rcands) : /\ Members(rcands[c]) = NewRefunds
                                          /\ GroupInWindow(t, rcands[c])
           /\ (viaOrder /\ ~(\E j \in 1..Len(ocands) :
                                /\ orders[ocands[j]].matched = 0
                                /\ OrderInWindow(t, orders[ocands[j]])))
                => NothingMatched
           /\ (~viaOrder /\ ~(\E c \in 1..Len(rcands) :
                                /\ GroupUnclaimed(rcands[c])
                                /\ GroupInWindow(t, rcands[c])))
                => NothingMatched]_vars

\* C5: the candidate a matcher claims is unclaimed and within the window, no
\* unclaimed candidate within the window is nearer in days to the
\* transaction, and of those as near it is the first in the candidate list.
\* (The date of a refund group is that of its first member that has one.)
C5_ClosestFirst ==
    [][run' = run =>
        LET t == trans[pos]
            ocands == OrdersOfAmount(orders, t.amount)
            rcands == RefundsOfAmount(refunds, -t.amount)
            OrderOk(j) == /\ orders[ocands[j]].matched = 0
                          /\ OrderInWindow(t, orders[ocands[j]])
            ODiff(j) == Abs(t.odate - orders[ocands[j]].shipDate)
            GroupOk(c) == GroupUnclaimed(rcands[c]) /\ GroupInWindow(t, rcands[c])
            GDiff(c) == Abs(t.odate - GroupDate(rcands[c]))
        IN /\ \A k \in NewOrders :
                \E j \in 1..Len(ocands) :
                    /\ ocands[j] = k
                    /\ OrderOk(j)
                    /\ \A i \in 1..Len(ocands) :
                        OrderOk(i) => \/ ODiff(j) < ODiff(i)
                                      \/ ODiff(j) = ODiff(i) /\ j <= i
           /\ NewRefunds # {} =>
                \E c \in 1..Len(rcands) :
                    /\ Members(rcands[c]) = NewRefunds
                    /\ GroupOk(c)
                    /\ \A i \in 1..Len(rcands) :
                        GroupOk(i) => \/ GDiff(c) < GDiff(i)
                                      \/ GDiff(c) = GDiff(i) /\ c <= i]_vars

\* Two unclaimed orders of the transaction's amount were equally near, within
\* the window but not on the day itself, and the first one was claimed.
C5_TieWentToFirst ==
    /\ run = 1
    /\ pos = 2
    /\ Len(orders) = 2
    /\ orders[1].matched = 1
    /\ orders[2].matched = 0
    /\ orders[1].total = trans[1].amount
    /\ orders[2].total = trans[1].amount
    /\ orders[1].shipDate # orders[2].shipDate
    /\ Abs(trans[1].odate - orders[1].shipDate)
         = Abs(trans[1].odate - orders[2].shipDate)
    /\ OrderInWindow(trans[1], orders[1])

\* C6: write_tags_to_mint is reached only in a run in which every pair has
\* passed both assertions of sanity_check_and_filter_tags; in a run in which
\* an assertion fails nothing is sent, valid pairs included.
C6_SentOnlyAfterValidation ==
    /\ pc = "aborted" => sent = <<>>
    /\ (pc = "written" \/ sent # <<>>) =>
        \A k \in 1..Len(result) : /\ Conserved(result[k])
                                  /\ CategoriesKnown(result[k], args.lookup)

\* The run was aborted by a pair that fails an assertion although another
\* pair is valid, changes its transaction and would have been sent; nothing
\* was sent.
C6_AbortedWithValidPair ==
    /\ pc = "aborted"
    /\ sent = <<>>
    /\ \E k \in 1..Len(result) :
        ~(Conserved(result[k]) /\ CategoriesKnown(result[k], args.lookup))
    /\ \E k \in 1..Len(result) :
        /\ Conserved(result[k])
        /\ CategoriesKnown(result[k], args.lookup)
        /\ original_and_new_are_diff(result[k])
        /\ orig_missing_prefix(result[k])

\* C7: the input Item records are as they were given, and the input Order and
\* Refund records differ from what was given by the claim flag only.
C7_InputsUnchanged ==
    /\ items = input.items
    /\ orders = [k \in 1..Len(orders) |->
                    [input.orders[k] EXCEPT !.matched = orders[k].matched]]
    /\ refunds = [k \in 1..Len(refunds) |->
                     [input.refunds[k] EXCEPT !.matched = refunds[k].matched]]

\* C8: a second call of tag_transactions on the same records, the claim flags
\* cleared, returns the list the first call returned.
C8_SecondRunSameResult ==
    (run = 2 /\ Returned) => result = result1

\* C9: the transactions handed to a matcher are handed over once each, in
\* processing order, a debit to tag_as_order and only when its amount is a
\* key of amount_to_orders, a credit to tag_as_refund and only when the
\* negated amount is a key of amount_to_refunds; the pairs of the result have
\* distinct transactions among those handed over, in processing order.
C9_OneMatcherInOrder ==
    /\ \A i \in 1..Len(calls) :
        /\ calls[i].pos \in 1..Len(trans)
        /\ \A j \in 1..(i - 1) : calls[j].pos < calls[i].pos
        /\ LET t == trans[calls[i].pos]
               groups == RefundGroups(refunds)
           IN IF calls[i].matcher = "order"
              THEN /\ t.isDebit
                   /\ \E k \in 1..Len(orders) : orders[k].total = t.amount
              ELSE /\ calls[i].matcher = "refund"
                   /\ ~t.isDebit
                   /\ \E c \in 1..Len(groups) :
                        GroupTotal(refunds, groups[c]) = -t.amount
    /\ \A i \in 1..Len(result) :
        /\ result[i].orig = trans[result[i].pos]
        /\ \A j \in 1..(i - 1) : result[j].pos < result[i].pos
        /\ \E c \in 1..Len(calls) : calls[c].pos = result[i].pos

\* A debit went to tag_as_order and a later credit to tag_as_refund, and each
\* gave a pair of the result.
C9_DebitThenCredit ==
    /\ run = 1
    /\ Len(calls) = 2
    /\ calls[1].matcher = "order"
    /\ calls[2].matcher = "refund"
    /\ Len(result) = 2
    /\ result[1].pos = calls[1].pos
    /\ result[2].pos = calls[2].pos

\* C10: the groups of amount_to_refunds (each under the sum of its members'
\* Total Refund Amount) are: every refund alone; all refunds of an order, iff
\* they are at least two and have more than one distinct Refund Date; all
\* refunds of an order and a Refund Date, iff they are at least two.  No two
\* groups have the same members.
C10_RefundIndexGroups ==
    LET groups == RefundGroups(refunds)
        R == 1..Len(refunds)
        OfOrder(k) == {i \in R : refunds[i].oid = refunds[k].oid}
        OfDay(k) == {i \in OfOrder(k) : refunds[i].date = refunds[k].date}
        DatesOf(S) == {refunds[i].date : i \in S}
        expected ==
            {{k} : k \in R}
            \cup {OfOrder(k) : k \in {i \in R : /\ Cardinality(OfOrder(i)) >= 2
                                                /\ Cardinality(DatesOf(OfOrder(i))) > 1}}
            \cup {OfDay(k) : k \in {i \in R : Cardinality(OfDay(i)) >= 2}}
    IN /\ {Members(groups[c]) : c \in 1..Len(groups)} = expected
       /\ Cardinality({Members(groups[c]) : c \in 1..Len(groups)}) = Len(groups)
       /\ \A c \in 1..Len(groups) :
            \E j \in 1..Len(RefundsOfAmount(refunds, GroupTotal(refunds, groups[c]))) :
                RefundsOfAmount(refunds, GroupTotal(refunds, groups[c]))[j] = groups[c]

\* Three refunds of one order, two of them on the same day: the index holds
\* the order's group and the day's group besides the three single refunds,
\* and a credit of the order's sum has claimed all three.
C10_OrderAndDayGroups ==
    /\ Len(refunds) = 3
    /\ Len(RefundGroups(refunds)) = 5
    /\ \A k \in 1..3 : refunds[k].oid = refunds[1].oid
    /\ \E p \in 1..Len(trans) : \A k \in 1..3 : refunds[k].matched = p

\* Two refund rows of one order with different refund dates and the totals
\* 1,000,000 and 2,000,000 micro-usd.
TwoDatedRefundsOfOneOrder ==
    /\ Len(refunds) = 2
    /\ refunds[1].oid = refunds[2].oid
    /\ refunds[1].date # NoDate /\ refunds[2].date # NoDate
    /\ refunds[1].date # refunds[2].date
    /\ refunds[1].total = Cents(100) /\ refunds[2].total = Cents(200)

\* C11 (as the code has it): two refund rows of one order with different
\* refund dates and the amounts 1,000,000 and 2,000,000 give the two groups of
\* one row each and, after them, the group of both rows (3,000,000); a credit
\* of -1,000,000 or -2,000,000 within the window of its row claims that row
\* alone and gets one line.
C11_OwnRowAndOrderGroup ==
    [][TwoDatedRefundsOfOneOrder =>
          /\ RefundGroups(refunds) = <<<<1>>, <<2>>, <<1, 2>>>>
          /\ \A k \in {1, 2} :
                (/\ Looping /\ run = 1 /\ pos' = pos + 1
                 /\ ~trans[pos].isDebit
                 /\ trans[pos].amount = -refunds[k].total
                 /\ Abs(trans[pos].odate - refunds[k].date) < MatchWindowDays
                 /\ refunds[k].matched = 0)
                => /\ NewRefunds = {k}
                   /\ \E p \in 1..Len(result') :
                         /\ result'[p].pos = pos
                         /\ Len(result'[p].lines) = 1
                         /\ result'[p].lines[1].amount = trans[pos].amount]_vars

\* Both rows claimed, each by the credit of its own amount.
C11_EachCreditOwnRow ==
    /\ TwoDatedRefundsOfOneOrder
    /\ run = 1 /\ pc = "tag" /\ Len(result) = 2
    /\ refunds[1].matched # 0 /\ refunds[2].matched # 0
    /\ refunds[1].matched # refunds[2].matched
    /\ trans[refunds[1].matched].amount = -Cents(100)
    /\ trans[refunds[2].matched].amount = -Cents(200)

\* C11 (as stated): the two rows are in no common group.
C11_NotMerged ==
    TwoDatedRefundsOfOneOrder =>
        \A j \in 1..Len(RefundGroups(refunds)) : Len(RefundGroups(refunds)[j]) = 1

\* The rows of a refund group, and the rows of a list that have the key of
\* row j.
GroupRows(g) == [j \in 1..Len(g) |-> refunds[g[j]]]
SameKey(rows, j) == {i \in 1..Len(rows) : CollapseKey(rows[i]) = CollapseKey(rows[j])}

\* C12: collapse_items_into_quantity, applied to the rows of any refund group,
\* gives for each key shared by N >= 2 rows one row, the first of them with
\* quantity N and the three amounts times N, keeps a row without a duplicate as
\* it is, gives nothing else, and has the same sum of Total Refund Amount; the
\* lines of a credit sum to the amount of the credit.
C12_CollapseKeepsSum ==
    /\ \A gi \in 1..Len(RefundGroups(refunds)) :
          LET rows == GroupRows(RefundGroups(refunds)[gi])
              out == collapse_items_into_quantity(rows)
              Collapsed(j) ==
                  LET first == rows[CHOOSE i \in SameKey(rows, j) :
                                        \A h \in SameKey(rows, j) : i <= h]
                      N == Cardinality(SameKey(rows, j))
                  IN IF N = 1 THEN rows[j]
                     ELSE [first EXCEPT !.qty = N,
                                        !.total = first.total * N,
                                        !.refundAmount = first.refundAmount * N,
                                        !.refundTax = first.refundTax * N]
          IN /\ \A j \in 1..Len(rows) :
                   Cardinality({o \in 1..Len(out) : out[o] = Collapsed(j)}) = 1
             /\ \A o \in 1..Len(out) : \E j \in 1..Len(rows) : out[o] = Collapsed(j)
             /\ SumSeq(Map(LAMBDA r : r.total, out))
                    = SumSeq(Map(LAMBDA r : r.total, rows))
    /\ \A p \in 1..Len(result) :
          ~result[p].orig.isDebit
              => sum_amounts(result[p].lines) = result[p].orig.amount

\* A credit of 300 cents matched to three rows of 100 cents of which two
\* collapse: two lines, one of 200 cents.
C12_TwoRowsCollapsed ==
    \E p \in 1..Len(result) :
        /\ ~result[p].orig.isDebit
        /\ result[p].orig.amount = -Cents(300)
        /\ Len(result[p].lines) = 2
        /\ \E k \in 1..2 : result[p].lines[k].amount = -Cents(200)
        /\ \E g \in Members(RefundGroups(refunds)) :
              /\ Len(g) = 3
              /\ \A j \in 1..3 : refunds[g[j]].matched = result[p].pos
              /\ Len(collapse_items_into_quantity(GroupRows(g))) = 2

\* What tag_transactions hands to unsplit_transactions, and the children of a
\* parent id in it.
Unsplittable == SelectSeq(SelectSeq(mint, AmazonInDesc), LAMBDA t : ~t.isPending)
ChildrenOf(p_id) == SelectSeq(Unsplittable, LAMBDA t : t.isChild /\ t.pid = p_id)

\* C13: unsplit_transactions returns the transactions that are no child as they
\* were, and for each parent id among the children exactly one parent: its id
\* is the parent id, it is no child, its amount is the sum over all children
\* of that parent id, it is a debit exactly when the sum is positive.  No child
\* is in the output, nothing else is, and the total of the amounts is that of
\* the input.
C13_UnsplitParents ==
    pc # "start" =>
        /\ SelectSeq(trans, LAMBDA t : t.children = <<>>)
               = SelectSeq(Unsplittable, LAMBDA t : ~t.isChild)
        /\ \A k \in 1..Len(Unsplittable) :
              Unsplittable[k].isChild =>
                  Cardinality({j \in 1..Len(trans) :
                                  /\ trans[j].children # <<>>
                                  /\ trans[j].id = Unsplittable[k].pid}) = 1
        /\ \A j \in 1..Len(trans) :
              /\ ~trans[j].isChild
              /\ trans[j].children # <<>> =>
                    /\ trans[j].children = ChildrenOf(trans[j].id)
                    /\ trans[j].amount = sum_amounts(ChildrenOf(trans[j].id))
                    /\ trans[j].isDebit = (trans[j].amount > 0)
        /\ sum_amounts(trans) = sum_amounts(Unsplittable)

\* Two children of 11 and 3 cents became one parent of 14 cents, next to a
\* transaction that is no child.
C13_ParentOfTwoChildren ==
    /\ pc = "tag"
    /\ \E j \in 1..Len(trans) :
          /\ Len(trans[j].children) = 2
          /\ trans[j].amount = Cents(14)
          /\ trans[j].children[1].amount = Cents(11)
    /\ \E j \in 1..Len(trans) : trans[j].children = <<>>

\* The tuples of the original of a pair (of its children when it is a
\* collapsed parent) and of its replacements, and the pairs returned.
OrigTuples(pair) ==
    IF pair.orig.children # <<>>
    THEN {get_tuple(pair.orig.children[k]) : k \in 1..Len(pair.orig.children)}
    ELSE {get_tuple(pair.orig)}
NewTuples(pair) == {get_tuple(pair.new[k]) : k \in 1..Len(pair.new)}
NoChangePairs == {p \in 1..Len(result) : OrigTuples(result[p]) = NewTuples(result[p])}
KeptPos == {filtered[k].pos : k \in 1..Len(filtered)}
HasPrefix(pair) ==
    /\ pair.orig.merchant # <<>>
    /\ pair.orig.merchant[1] = get_prefix(pair.orig.isDebit)

\* C14: when sanity_check_and_filter_tags returns, no pair whose original has
\* the same set of (description, amount as string, category) tuples as its
\* replacements is returned (the tuples of the children stand for a collapsed
\* parent), every pair returned differs in a tuple, no_change is the number of
\* the pairs with equal sets, and a pair with different sets is missing only
\* if the filter on the prefix took it.
C14_NoChangeDropped ==
    pc = "checked" =>
        /\ \A p \in NoChangePairs : result[p].pos \notin KeptPos
        /\ \A k \in 1..Len(filtered) :
              OrigTuples(filtered[k]) # NewTuples(filtered[k])
        /\ stats.no_change = Cardinality(NoChangePairs)
        /\ \A p \in 1..Len(result) :
              (p \notin NoChangePairs /\ result[p].pos \notin KeptPos)
                  => (~args.retag_changed /\ HasPrefix(result[p]))

\* A parent of two children whose tuples are those of the replacements, in
\* the other order, is dropped, and another pair is returned.
C14_EqualChildrenDropped ==
    /\ pc = "checked"
    /\ filtered # <<>>
    /\ \E p \in NoChangePairs :
          /\ Len(result[p].orig.children) = 2
          /\ Len(result[p].new) = 2
          /\ get_tuple(result[p].orig.children[1]) = get_tuple(result[p].new[2])
          /\ get_tuple(result[p].orig.children[1]) # get_tuple(result[p].new[1])

\* C15: when sanity_check_and_filter_tags returns and retag_changed is not
\* set, no pair returned has an original whose description starts with the
\* prefix of its kind (debit or credit); when retag_changed is set, a pair
\* whose original starts with the prefix is returned like any other pair that
\* differs from its original; to_be_updated is the number of pairs returned.
C15_PrefixedSkippedUnlessRetag ==
    pc = "checked" =>
        /\ ~args.retag_changed => \A k \in 1..Len(filtered) : ~HasPrefix(filtered[k])
        /\ args.retag_changed =>
              \A p \in 1..Len(result) :
                  (HasPrefix(result[p]) /\ p \notin NoChangePairs)
                      => result[p].pos \in KeptPos
        /\ stats.to_be_updated = Len(filtered)

\* retag_changed is not set: a credit that has the refund prefix and whose
\* replacements differ from it is not returned, a pair without prefix is.
C15_PrefixedCreditSkipped ==
    /\ pc = "checked"
    /\ ~args.retag_changed
    /\ filtered # <<>>
    /\ \E p \in 1..Len(result) :
          /\ ~result[p].orig.isDebit
          /\ HasPrefix(result[p])
          /\ p \notin NoChangePairs
          /\ result[p].pos \notin KeptPos

\* A replacement of some pair has a category that the lookup has no key for.
UnknownCategory ==
    \E p \in 1..Len(result) : \E k \in 1..Len(result[p].new) :
        result[p].new[k].category \notin DOMAIN args.lookup

\* C16: sanity_check_and_filter_tags fails when a replacement of a pair has a
\* category that is no key of the lookup; when it returns, every replacement
\* of every pair it was given, and so of every pair it returns, has the
\* category id the lookup has for its category.
C16_CategoryIdFromLookup ==
    /\ (pc \in {"checked", "aborted"} /\ UnknownCategory) => pc = "aborted"
    /\ pc = "checked" =>
          /\ \A p \in 1..Len(result) : \A k \in 1..Len(result[p].new) :
                /\ result[p].new[k].category \in DOMAIN args.lookup
                /\ result[p].new[k].categoryId
                       = args.lookup[result[p].new[k].category]
          /\ \A p \in 1..Len(filtered) : \A k \in 1..Len(filtered[p].new) :
                filtered[p].new[k].categoryId
                    = args.lookup[filtered[p].new[k].category]

\* The call failed although every pair conserves its amount: a Shipping line
\* and a lookup without 'Shipping'.
C16_FailedOnShipping ==
    /\ pc = "aborted"
    /\ result # <<>>
    /\ \A p \in 1..Len(result) : Conserved(result[p])
    /\ "Shipping" \notin DOMAIN args.lookup
    /\ \E p \in 1..Len(result) : \E k \in 1..Len(result[p].new) :
          result[p].new[k].category = "Shipping"

\* C17: the replacements of a pair are the lines the matcher returned in
\* reversed order, each with the prefix put before its description and with
\* its amount, category and debit flag as they were; there are as many, and
\* their amounts have the same sum.
C17_ReversedAndPrefixed ==
    \A p \in 1..Len(result) :
        LET lines == result[p].lines
            new == result[p].new
            n == Len(lines)
        IN /\ Len(new) = n
           /\ \A k \in 1..n :
                 /\ new[k].merchant
                        = <<get_prefix(result[p].orig.isDebit)>> \o lines[n + 1 - k].merchant
                 /\ new[k].amount = lines[n + 1 - k].amount
                 /\ new[k].category = lines[n + 1 - k].category
                 /\ new[k].isDebit = lines[n + 1 - k].isDebit
           /\ sum_amounts(new) = sum_amounts(lines)

\* A pair of an item line and a shipping line: the shipping line, made last,
\* is the first replacement.
C17_ShippingLineFirst ==
    \E p \in 1..Len(result) :
        /\ Len(result[p].lines) = 2
        /\ result[p].lines[2].merchant = <<"Shipping">>
        /\ result[p].new[1].merchant = <<DEFAULT_MERCHANT_PREFIX, "Shipping">>
        /\ result[p].new[2].merchant # result[p].new[1].merchant

\* The step of a debit whose closest order resolves to one item with a
\* sub-total other than the order's: the order, the item, and the quantities
\* from 1 to the item's that give the order's sub-total.
StepOrder ==
    ClosestOrder(trans[pos], orders, OrdersOfAmount(orders, trans[pos].amount),
                 1, 0, LargeNumDays)
StepWork == SortItems(ResolveItems(orders[StepOrder], items).work)
SingleItemMismatch ==
    /\ Looping
    /\ trans[pos].isDebit
    /\ OrdersOfAmount(orders, trans[pos].amount) # <<>>
    /\ StepOrder # 0
    /\ ResolveItems(orders[StepOrder], items).kind = "work"
    /\ Len(StepWork) = 1
    /\ StepWork[1].it.subtotal # orders[StepOrder].subtotal
FittingQuantities ==
    {i \in 1..StepWork[1].it.qty :
        StepWork[1].it.unit * i = orders[StepOrder].subtotal}

\* C18: when tag_as_order resolves one item whose sub-total is not the
\* order's, the item is adjusted to a quantity i from 1 to its quantity with
\* unit price * i = order sub-total; when there is no such i the transaction
\* is passed over (None) and no assertion fails.
C18_QuantityFromOneUp ==
    [][SingleItemMismatch =>
          IF FittingQuantities = {}
          THEN pc' = pc /\ pos' = pos + 1 /\ result' = result
          ELSE LET f == FixQuantity(orders[StepOrder], StepWork)
               IN /\ f.kind = "work"
                  /\ f.work[1].it.qty \in FittingQuantities]_vars

\* a is what the adjustment to an order makes of the item o: quantity n, unit
\* price * n, the tax scaled by n / quantity plus a difference d to the
\* order's total that is below a cent, total = sub-total + tax, and the
\* quantity o had.
AdjustedCopy(o, a, order) ==
    /\ a.qty >= 1 /\ a.qty <= o.qty
    /\ a.subtotal = o.unit * a.qty
    /\ \E d \in {0, order.total - a.subtotal - (o.tax * a.qty) \div o.qty} :
          /\ Abs(d) < CENT
          /\ (a.tax - d) * o.qty = o.tax * a.qty
          /\ d # 0 => a.total = order.total
    /\ a.total = a.subtotal + a.tax
    /\ a.origQty = o.qty
    /\ [a EXCEPT !.qty = o.qty, !.subtotal = o.subtotal, !.tax = o.tax,
                 !.total = o.total, !.origQty = o.origQty, !.approx = o.approx] = o

\* The first item of the order of the step whose unit price is the order's
\* sub-total (the item the path without tracking number copies).
StepUnitItem ==
    items[CHOOSE k \in 1..Len(items) :
             /\ items[k].oid = orders[StepOrder].oid
             /\ items[k].unit = orders[StepOrder].subtotal
             /\ \A h \in 1..(k - 1) : ~(items[h].oid = orders[StepOrder].oid
                                        /\ items[h].unit = orders[StepOrder].subtotal)]

\* C19: the copy of an item that tag_as_order adjusts to quantity n (n = 1 on
\* the path without tracking number, the fitting quantity on the other), after
\* the difference to the order's total has gone to the tax, has quantity n,
\* sub-total unit price * n, the tax scaled by n / original quantity plus the
\* difference (below one cent), total = sub-total + tax, and the original
\* quantity; quantity 3 at 1,000,000 against a sub-total of 2,000,000 gives
\* quantity 2 and sub-total 2,000,000.
C19_AdjustedCopy ==
    (Looping /\ trans[pos].isDebit /\ StepOrder # 0) =>
        LET order == orders[StepOrder]
            res == ResolveItems(order, items)
            fixed == FixQuantity(order, SortItems(res.work))
        IN /\ (res.kind = "work" /\ Len(res.work) = 1 /\ res.work[1].src = 0)
                  => /\ AdjustedCopy(StepUnitItem, res.work[1].it, order)
                     /\ res.work[1].it.qty = 1
           /\ (SingleItemMismatch /\ FittingQuantities # {})
                  => /\ fixed.kind = "work"
                     /\ AdjustedCopy(StepWork[1].it, fixed.work[1].it, order)
                     /\ fixed.work[1].it.unit * fixed.work[1].it.qty = order.subtotal
                     /\ (StepWork[1].it.qty = 3 /\ StepWork[1].it.unit = Cents(100)
                         /\ order.subtotal = Cents(200))
                            => /\ fixed.work[1].it.qty = 2
                               /\ fixed.work[1].it.subtotal = Cents(200)

\* An item of quantity 3 at 100 cents with 10 cents of tax, charged as two
\* (sub-total 200 cents, 7 cents of tax): the line of "2x" with 207 cents, the
\* third of a cent absorbed, and the item of the report as it was.
C19_TwoOfThreeCharged ==
    /\ Len(result) = 1
    /\ Len(input.items) = 1 /\ Len(input.orders) = 1
    /\ input.items[1].qty = 3
    /\ input.items[1].tax = Cents(10)
    /\ input.orders[1].subtotal = Cents(200)
    /\ input.orders[1].tracking = "T1"
    /\ Len(result[1].lines) = 1
    /\ result[1].lines[1].merchant[1] = "2x"
    /\ result[1].lines[1].amount = Cents(207)

\* The step of a debit that gets as far as the check of the itemized total:
\* the items after the quantity fix, the synthesized lines, the leftover and
\* the difference of the taxes.
StepFixed == FixQuantity(orders[StepOrder], StepWork)
StepLines == Synthesize(trans[pos], orders[StepOrder], StepFixed.work, float_eq)
StepLeftover == trans[pos].amount - sum_amounts(StepLines)
StepTaxDiff ==
    orders[StepOrder].taxBefore - SumSeq(Map(LAMBDA e : e.it.tax, StepFixed.work))
LeftoverStep ==
    /\ Looping
    /\ trans[pos].isDebit
    /\ OrdersOfAmount(orders, trans[pos].amount) # <<>>
    /\ StepOrder # 0
    /\ ResolveItems(orders[StepOrder], items).kind = "work"
    /\ StepFixed.kind = "work"
    /\ Abs(StepLeftover) > EPS
MiscCharge == <<"Misc Charge (Gift wrap, etc)">>

\* C20: when the synthesized amounts differ from the amount of the transaction
\* by more than 50 micro-usd, no Misc Charge line is made if the difference is
\* within the tolerance of tax before promotions minus the sum of the item
\* taxes, below or above; in every other case the lines are the synthesized
\* lines followed by one Misc Charge line of the whole difference, and the
\* items are as they were.
C20_TaxBranchOnlyOnEqualDiff ==
    [][LeftoverStep =>
          IF Abs(StepLeftover - StepTaxDiff) < EPS
          THEN \A p \in 1..Len(result') :
                  result'[p].pos = pos =>
                      \A k \in 1..Len(result'[p].lines) :
                          result'[p].lines[k].merchant # MiscCharge
          ELSE /\ Len(result') = Len(result) + 1
               /\ result'[Len(result')].lines
                      = Append(StepLines,
                               Line(trans[pos], MiscCharge, DEFAULT_MINT_CATEGORY,
                                    StepLeftover, TRUE))
               /\ items' = items]_vars

\* The step of a debit that enters the tax redistribution, and what the check
\* of the itemized total makes of its items and lines.
TaxBranchStep == LeftoverStep /\ StepLeftover - StepTaxDiff < EPS
StepReconciled == Reconcile(trans[pos], orders[StepOrder], StepFixed.work, StepLines)

\* C21: the loop of the tax redistribution ends for every input that enters
\* it, with tax before promotions minus the sum of the item taxes at most 50
\* micro-usd from zero, and the amount of each item line is the total of its
\* item.
C21_TaxLoopConverges ==
    [][TaxBranchStep =>
          /\ pc' # "hung"
          /\ StepReconciled.kind = "ok"
          /\ ~(Abs(orders[StepOrder].taxBefore
                     - SumSeq(Map(LAMBDA e : e.it.tax, StepReconciled.work))) > EPS)
          /\ \A k \in 1..Len(StepReconciled.work) :
                StepReconciled.lines[k].amount = StepReconciled.work[k].it.total]_vars

\* The items after a redistribution that gives each cent to the first of the
\* items with the lowest rate other than zero (tax_diff positive) or takes it
\* from the first of the items with the highest rate (tax_diff negative), the
\* rates being those of the items as they are at that step.
LowestTaxed(its) ==
    CHOOSE k \in 1..Len(its) :
        /\ TaxRate(its[k]) # 0
        /\ \A j \in 1..Len(its) :
              TaxRate(its[j]) # 0 =>
                  \/ TaxRate(its[k]) < TaxRate(its[j])
                  \/ TaxRate(its[k]) = TaxRate(its[j]) /\ k <= j
HighestTaxed(its) ==
    CHOOSE k \in 1..Len(its) :
        \A j \in 1..Len(its) :
            \/ TaxRate(its[k]) > TaxRate(its[j])
            \/ TaxRate(its[k]) = TaxRate(its[j]) /\ k <= j
RECURSIVE CentByCent(_, _, _)
CentByCent(its, tax_diff, fuel) ==
    IF ~(Abs(tax_diff) > EPS) \/ fuel = 0 THEN its
    ELSE IF tax_diff > 0
    THEN IF \A k \in 1..Len(its) : TaxRate(its[k]) = 0 THEN its
         ELSE CentByCent([its EXCEPT ![LowestTaxed(its)].tax = @ + CENT,
                                     ![LowestTaxed(its)].total = @ + CENT],
                         tax_diff - CENT, fuel - 1)
    ELSE CentByCent([its EXCEPT ![HighestTaxed(its)].tax = @ - CENT,
                                ![HighestTaxed(its)].total = @ - CENT],
                    tax_diff + CENT, fuel - 1)
StepItems == [k \in 1..Len(StepFixed.work) |-> StepFixed.work[k].it]

SynthesisStep ==
    /\ Looping
    /\ trans[pos].isDebit
    /\ OrdersOfAmount(orders, trans[pos].amount) # <<>>
    /\ StepOrder # 0
    /\ ResolveItems(orders[StepOrder], items).kind = "work"
    /\ StepFixed.kind = "work"
StepShipAmount ==
    orders[StepOrder].shipping
        + (orders[StepOrder].taxCharged - SumSeq(Map(LAMBDA i : i.tax, StepItems)))
FreeShipping ==
    /\ orders[StepOrder].shipping # 0
    /\ orders[StepOrder].promos # 0
    /\ Abs(-orders[StepOrder].promos) = StepShipAmount

\* C23: after the item lines the synthesis has a shipping line exactly when
\* the shipping charge is not zero, of shipping charge + (tax charged - sum of
\* the item taxes), and then a promotion line exactly when total promotions is
\* not zero.  The promotion line has category 'Shipping' and the amount
\* -total promotions when its magnitude is the amount of the shipping line;
\* otherwise it has the default category and -total promotions less (tax
\* before promotions - tax charged).
C23_ShippingAndPromotionLines ==
    SynthesisStep =>
        LET t == trans[pos]
            order == orders[StepOrder]
            n == Len(StepItems)
            ship == IF order.shipping # 0
                    THEN <<Line(t, <<"Shipping">>, "Shipping", StepShipAmount, TRUE)>>
                    ELSE <<>>
            promo == IF order.promos = 0 THEN <<>>
                     ELSE IF FreeShipping
                     THEN <<Line(t, <<"Promotion(s)">>, "Shipping", -order.promos, FALSE)>>
                     ELSE <<Line(t, <<"Promotion(s)">>, DEFAULT_MINT_CATEGORY,
                                 -order.promos - (order.taxBefore - order.taxCharged),
                                 FALSE)>>
        IN SubSeq(StepLines, n + 1, Len(StepLines)) = ship \o promo

\* The step of a debit whose order is selected and then given up: no items
\* of the order id or none at the order's sub-total, no fitting quantity, or
\* several items that do not add up to the sub-total.
AbandonedStep ==
    /\ Looping
    /\ trans[pos].isDebit
    /\ OrdersOfAmount(orders, trans[pos].amount) # <<>>
    /\ StepOrder # 0
    /\ \/ ResolveItems(orders[StepOrder], items).kind = "none"
       \/ /\ ResolveItems(orders[StepOrder], items).kind = "work"
          /\ StepFixed.kind = "none"
InNoPair(k) == \A p \in 1..Len(result) : result[p].pos # orders[k].matched

\* C24: the step that selects an order and then gives the match up leaves the
\* order claimed by its transaction and adds no pair; an order claimed in this
\* way keeps its claim for the rest of the run and is never selected for a
\* later transaction.
C24_AbandonedOrderStaysClaimed ==
    [][run' = run =>
          /\ AbandonedStep =>
                /\ orders' = [orders EXCEPT ![StepOrder].matched = pos]
                /\ result' = result
                /\ pos' = pos + 1
                /\ pc' = pc
          /\ \A k \in 1..Len(orders) :
                (orders[k].matched # 0 /\ InNoPair(k)) =>
                    /\ orders'[k].matched = orders[k].matched
                    /\ (Looping /\ trans[pos].isDebit) => StepOrder # k]_vars

\* The run is over: the order given up for the first charge is claimed by it
\* and is in no pair, and the second charge, of the same amount and within the
\* window of that order, has the other order.
C24_ClaimedWithoutPair ==
    /\ run = 1 /\ pc = "tag" /\ pos > Len(trans)
    /\ Len(orders) = 2 /\ Len(trans) = 2
    /\ orders[1].matched = 1
    /\ InNoPair(1)
    /\ trans[2].amount = orders[1].total
    /\ OrderInWindow(trans[2], orders[1])
    /\ orders[2].matched = 2
    /\ \E p \in 1..Len(result) : result[p].pos = 2

====
